---- MODULE Spec2Model ----
(***************************************************************************)
(* A model of the Bayeux long-polling client of client.go: the facade      *)
(* (Connect, Subscribe, Unsubscribe, Close), ensureConnected and the       *)
(* handshake, the long-poll worker with its fan-out over the subscription  *)
(* registry, and send with its demultiplexing loop over a response batch.  *)
(* Caller goroutines and worker goroutines interleave at every blocking    *)
(* point of the code: mutex acquisition, the HTTP round trip, a send on    *)
(* the bounded internal queue, a send on a subscriber's destination.       *)
(***************************************************************************)
EXTENDS Integers, Sequences, FiniteSets, TLC

(* ------------------------------ bounds -------------------------------- *)

\* caller goroutines using the client concurrently
NCallers == 2
\* facade calls and /meta/connect polls made in one run, all goroutines together
MaxOps == 3
\* capacity of the internal queue c.messages (make(chan *Message, 100) in the
\* code, scaled down so that a response batch can fill it)
QueueCap == 2
\* capacity of a subscriber's destination channel
OutCap == 1

(* ------------------------------ universe ------------------------------ *)

Callers == 1..NCallers
\* every successful handshake makes a tomb and starts a worker on it; a
\* second handshake needs a Close before it, so MaxOps calls make at most
\* (MaxOps + 1) \div 2 tombs
Tombs == 1..((MaxOps + 1) \div 2)
WorkerOf(t) == NCallers + t
Workers == {WorkerOf(t) : t \in Tombs}
Procs == Callers \cup Workers
NoProc == 0

Handshake == "/meta/handshake"
Connect == "/meta/connect"
Subscribe == "/meta/subscribe"
Unsubscribe == "/meta/unsubscribe"
Disconnect == "/meta/disconnect"

\* patterns a caller may pass; BadPattern is one ohmyglob.Compile rejects
BadPattern == "\\"
Patterns == {"/a/*", " /a/*", "/b/*", BadPattern}
Dests == {"ch1", "ch2"}
\* the (pattern, destination) pairs callers subscribe with, and the patterns
\* they unsubscribe
SubscribeArgs == {<<"/a/*", "ch1">>, <<" /a/*", "ch2">>, <<"/b/*", "ch2">>, <<BadPattern, "ch1">>}
UnsubscribeArgs == {"/a/*", " /a/*"}

\* a compiler that accepts every pattern
CompilesAnything(pattern) == TRUE

\* ohmyglob.Compile: fails on BadPattern
CompileOk(pattern) == pattern # BadPattern

\* Glob.String() of the compiled pattern: the pattern as Compile kept it,
\* which is the pattern with surrounding white space trimmed
GlobString(pattern) == IF pattern = " /a/*" THEN "/a/*" ELSE pattern

\* Glob.MatchString on the channels the server uses
MatchString(glob, channel) ==
    \/ glob = "/a/*" /\ channel = "/a/x"
    \/ glob = "/b/*" /\ channel = "/b/y"

(* --------------------------- wire envelopes --------------------------- *)

\* a decoded metaMessage: the fields the client reads
Env(ch, ok, e, id, d) ==
    [channel |-> ch, successful |-> ok, error |-> e, clientId |-> id, data |-> d]
NoEnv == Env("", FALSE, "", 0, "")
\* pushed messages: no "successful" member, so it decodes to false
M1 == Env("/a/x", FALSE, "", 0, "d1")
M2 == Env("/b/y", FALSE, "", 0, "d2")
ROk(ch, id) == Env(ch, TRUE, "", id, "")
RFail(ch) == Env(ch, FALSE, "Unknown client", 0, "")

\* a client that takes every reply for a success
AlwaysSuccessful(rsp) == TRUE

\* lines 122, 212, 236, 256: rsp.Successful
Successful(rsp) == rsp.successful

\* a *Message or *metaMessage held by the client: the envelope it was taken
\* from (orig), what the pointer reads now (val), and the goroutine whose
\* send loop still owns the variable it points into (live)
Cell(e, p) == [orig |-> e, val |-> e, live |-> p]
NoCell == Cell(NoEnv, NoProc)

\* results of a facade call
Pending == [kind |-> "pending", msg |-> ""]
Nil == [kind |-> "nil", msg |-> ""]
Err(m) == [kind |-> "err", msg |-> m]
Panic == [kind |-> "panic", msg |-> "nil pointer dereference"]

\* registry values: map[string]interface{} holds a subscription or ""
Absent == [kind |-> "absent", glob |-> "", out |-> ""]
Forgotten == [kind |-> "forgotten", glob |-> "", out |-> ""]
Sub(g, o) == [kind |-> "sub", glob |-> g, out |-> o]
Keys == Patterns \ {BadPattern}
CanonKeys == {GlobString(k) : k \in Keys}

NoReq == [channel |-> "", clientId |-> 0, subscription |-> ""]
IdleTask ==
    [pc |-> "idle", op |-> "", pattern |-> "", out |-> "", req |-> NoReq,
     batch |-> <<>>, reply |-> NoCell, err |-> "", ret |-> Pending]
IdleWorker == [msg |-> NoCell, todo |-> {}, done |-> {}, cur |-> Absent]

VARIABLES
    sharedLoopVar,  \* the build's range-loop semantics (before Go 1.22: one variable per loop)
    mtx,            \* c.mtx: the goroutine holding it exclusively, or NoProc
    connected,      \* c.connected
    clientId,       \* c.clientId (0 is "")
    tomb,           \* c.tomb (0 is nil)
    dying,          \* the tombs that were killed
    subscriptions,  \* c.subscriptions
    messages,       \* c.messages
    task,           \* per goroutine: position, call arguments, the send in progress
    worker,         \* per worker: the message being fanned out and the iteration
    out,            \* the subscribers' destination channels
    opsLeft,        \* facade calls and polls still to be made
    crashed,        \* a goroutine panicked: the process is gone
    hsSent,         \* history: /meta/handshake requests posted so far
    early,          \* history: the callers whose running or last call entered
                    \* ensureConnected before the first handshake was over
    earlySent,      \* history: /meta/handshake requests posted by such calls
    registered      \* history, per canonical pattern: the destinations of the
                    \* Subscribe calls that succeeded since the last Unsubscribe
                    \* of that pattern that succeeded

session == <<mtx, connected, clientId, tomb, dying>>
queues == <<messages, worker, out>>
history == <<hsSent, early, earlySent, registered>>
vars == <<sharedLoopVar, session, subscriptions, queues, task, opsLeft, crashed, history>>

Init ==
    /\ sharedLoopVar \in BOOLEAN
    /\ mtx = NoProc
    /\ connected = FALSE
    /\ clientId = 0
    /\ tomb = 0
    /\ dying = {}
    /\ subscriptions = [k \in Keys |-> Absent]
    /\ messages = <<>>
    /\ task = [p \in Procs |-> IF p \in Callers THEN IdleTask
                                ELSE [IdleTask EXCEPT !.pc = "none"]]
    /\ worker = [w \in Workers |-> IdleWorker]
    /\ out = [d \in Dests |-> <<>>]
    /\ opsLeft = MaxOps
    /\ crashed = FALSE
    /\ hsSent = 0
    /\ early = {}
    /\ earlySent = 0
    /\ registered = [k \in CanonKeys |-> <<>>]

(* ------------------------------- send --------------------------------- *)

\* send, lines 271-276: the request is marshalled and posted
Post(t, ch, cid, sub) ==
    [t EXCEPT !.pc = "send_wait",
              !.req = [channel |-> ch, clientId |-> cid, subscription |-> sub],
              !.batch = <<>>, !.reply = NoCell, !.err = ""]

\* a facade call returns r to its caller
Returned(t, r) ==
    [IdleTask EXCEPT !.op = t.op, !.pattern = t.pattern, !.ret = r]

\* the goroutine panics on a nil pointer: the process dies
Panicked(t) == [Returned(t, Panic) EXCEPT !.pc = "panic"]

\* what the server may answer to a request on channel ch; id is the client
\* id a handshake reply issues
Batches(ch, id) ==
    IF ch = Connect
    THEN {<<RFail(ch)>>, <<ROk(ch, id), M1>>, <<M2, ROk(ch, id)>>,
          <<ROk(ch, id), M1, M2>>}
    ELSE {<<ROk(ch, id)>>, <<RFail(ch)>>, <<>>,
          IF ch \in {Unsubscribe, Disconnect} THEN <<RFail(ch), M1>> ELSE <<ROk(ch, id), M1>>}

\* line 302: the envelope is the reply to the pending request
IsReply(req, e) == req.channel = e.channel

Running == ~crashed

\* the envelopes at the head of batch b that the loop takes as replies
\* (line 303), without blocking
ReplyPrefix(req, b) ==
    CHOOSE k \in 0..Len(b) :
        /\ \A i \in 1..k : IsReply(req, b[i])
        /\ k = Len(b) \/ ~IsReply(req, b[k + 1])

\* a pointer to the loop variable msg of p's send, taken while msg held e
AddressOfMsg(e, p) == Cell(e, IF sharedLoopVar THEN p ELSE NoProc)

\* what a pointer reads after p's loop has moved on: with one variable for
\* the whole loop, a pointer into it reads the envelope msg holds now, until
\* send returns (fin) and msg changes no more
Reread(c, p, msg, fin) ==
    IF c.live = p
    THEN [c EXCEPT !.val = msg, !.live = IF fin THEN NoProc ELSE p]
    ELSE c

\* lines 301-309: the loop runs on over batch b until it has to send on the
\* queue (line 305) or the batch ends and send returns
LoopOn(p, t, b) ==
    LET k == ReplyPrefix(t.req, b)
        rest == SubSeq(b, k + 1, Len(b))
        msg == IF rest # <<>> THEN rest[1] ELSE IF b # <<>> THEN b[Len(b)] ELSE NoEnv
        fin == rest = <<>>
    IN  [msg |-> msg,
         fin |-> fin,
         task |-> [t EXCEPT !.pc = IF fin THEN "send_ret" ELSE "send_loop",
                            !.batch = rest,
                            !.reply = Reread(IF k > 0 THEN AddressOfMsg(b[k], p) ELSE @,
                                             p, msg, fin)]]

\* line 305: the send on the queue, which blocks while the queue is full;
\* send returns when that was the last envelope
SendLoop(p) ==
    /\ Running
    /\ task[p].pc = "send_loop"
    /\ Len(messages) < QueueCap
    /\ LET t == task[p]
           e == Head(t.batch)
           fin == Len(t.batch) = 1
           queued == Append(messages, AddressOfMsg(e, p))
       IN  /\ messages' = [i \in DOMAIN queued |-> Reread(queued[i], p, e, fin)]
           /\ worker' = [w \in Workers |-> [worker[w] EXCEPT !.msg = Reread(@, p, e, fin)]]
           /\ out' = [d \in Dests |-> [i \in DOMAIN out[d] |-> Reread(out[d][i], p, e, fin)]]
           /\ task' = [task EXCEPT ![p] =
                        [t EXCEPT !.pc = IF fin THEN "send_ret" ELSE "send_next",
                                  !.batch = Tail(@),
                                  !.reply = Reread(@, p, e, fin)]]
    /\ UNCHANGED <<sharedLoopVar, session, subscriptions, opsLeft, crashed, history>>

\* lines 301-303: the loop's next iterations after a send on the queue
SendNext(p) ==
    /\ Running
    /\ task[p].pc = "send_next"
    /\ LET step == LoopOn(p, task[p], task[p].batch)
       IN  /\ messages' = [i \in DOMAIN messages |-> Reread(messages[i], p, step.msg, step.fin)]
           /\ worker' = [w \in Workers |->
                            [worker[w] EXCEPT !.msg = Reread(@, p, step.msg, step.fin)]]
           /\ out' = [d \in Dests |->
                        [i \in DOMAIN out[d] |-> Reread(out[d][i], p, step.msg, step.fin)]]
           /\ task' = [task EXCEPT ![p] = step.task]
    /\ UNCHANGED <<sharedLoopVar, session, subscriptions, opsLeft, crashed, history>>

(* ------------------------------ callers ------------------------------- *)

\* the pattern as the caller passed it
RawPattern(pattern) == pattern

\* line 262: the key a subscription is registered under
RegistryKey(pattern) == GlobString(pattern)

\* line 139: the key doForgetSubscription overwrites
ForgetKey(pattern) == pattern

\* the callers are interchangeable: they are numbered in the order of their
\* first calls
MayCall(p) ==
    /\ Running
    /\ task[p].pc = "idle"
    /\ opsLeft > 0
    /\ \A q \in Callers : q < p => task[q].op # ""

\* a facade call begins
Begin(o, pat, d) == [IdleTask EXCEPT !.op = o, !.pattern = pat, !.out = d]

\* subscribe, lines 243-252: compile the pattern, then post /meta/subscribe
\* with the client id read from c.clientId
SubscribeStart(t, cid) ==
    IF ~CompileOk(t.pattern) THEN Returned(t, Err("Invalid pattern"))
    ELSE Post(t, Subscribe, cid, t.pattern)

\* a subscribe that uses the client id read before ensureConnected ran
AfterEnsureStaleId(t, cid) ==
    IF t.op = "Connect" THEN Returned(t, Nil) ELSE SubscribeStart(t, 0)

\* ensureConnected returned nil: Connect returns it (line 100), SubscribeExt
\* goes on to subscribe (line 154)
AfterEnsure(t, cid) ==
    IF t.op = "Connect" THEN Returned(t, Nil) ELSE SubscribeStart(t, cid)

\* the first handshake request was sent and send returned from it
FirstHandshakeOver ==
    \/ hsSent > 1
    \/ hsSent = 1 /\ \A p \in Callers : task[p].req.channel # Handshake

\* lines 158-164: connected is read under the read lock
EnsureFast(p, t) ==
    /\ MayCall(p)
    /\ mtx = NoProc
    /\ opsLeft' = opsLeft - 1
    /\ task' = [task EXCEPT ![p] = IF connected THEN AfterEnsure(t, clientId)
                                   ELSE [t EXCEPT !.pc = "ec_lock"]]
    /\ early' = IF FirstHandshakeOver THEN early \ {p} ELSE early \cup {p}
    /\ UNCHANGED <<sharedLoopVar, session, subscriptions, queues, crashed, hsSent, earlySent, registered>>

CallConnect(p) == EnsureFast(p, Begin("Connect", "", ""))

CallSubscribe(p) ==
    \E a \in SubscribeArgs : EnsureFast(p, Begin("Subscribe", a[1], a[2]))

\* ensureConnected without the second look at c.connected
NotRechecked == FALSE

\* lines 167-170: c.connected as read again with the exclusive lock held
ConnectedUnderLock == connected

\* lines 166-171: the exclusive lock is taken and connected is read again;
\* the handshake request is posted with the lock held
EnsureLock(p) ==
    /\ Running
    /\ task[p].pc = "ec_lock"
    /\ mtx = NoProc
    /\ IF ConnectedUnderLock
       THEN /\ task' = [task EXCEPT ![p] = AfterEnsure(@, clientId)]
            /\ UNCHANGED <<mtx, hsSent, earlySent>>
       ELSE /\ task' = [task EXCEPT ![p] = Post(@, Handshake, 0, "")]
            /\ mtx' = p
            /\ hsSent' = hsSent + 1
            /\ earlySent' = IF p \in early THEN earlySent + 1 ELSE earlySent
    /\ UNCHANGED <<sharedLoopVar, connected, clientId, tomb, dying, subscriptions,
                   queues, opsLeft, crashed, early, registered>>

\* handshake, lines 209-216, and the rest of ensureConnected, lines 172-177
HandshakeFinish(p, t) ==
    /\ mtx' = NoProc
    /\ LET rsp == t.reply.val
       IN  IF t.err # ""
           THEN /\ task' = [task EXCEPT ![p] = Returned(t, Err(t.err))]
                /\ UNCHANGED <<connected, clientId, tomb, crashed>>
           ELSE IF t.reply = NoCell
           THEN /\ task' = [task EXCEPT ![p] = Panicked(t)]
                /\ crashed' = TRUE
                /\ UNCHANGED <<connected, clientId, tomb>>
           ELSE IF ~Successful(rsp)
           THEN /\ task' = [task EXCEPT ![p] = Returned(t, Err(rsp.error))]
                /\ UNCHANGED <<connected, clientId, tomb, crashed>>
           ELSE /\ clientId' = rsp.clientId
                /\ connected' = TRUE
                /\ tomb' = tomb + 1
                /\ task' = [task EXCEPT ![p] = AfterEnsure(t, rsp.clientId),
                                        ![WorkerOf(tomb + 1)] = [IdleTask EXCEPT !.pc = "select"]]
                /\ UNCHANGED crashed
    /\ UNCHANGED <<sharedLoopVar, dying, subscriptions, queues, opsLeft, history>>

HandshakeReturn(p) ==
    /\ Running
    /\ task[p].pc = "send_ret"
    /\ task[p].req.channel = Handshake
    /\ HandshakeFinish(p, task[p])

\* subscribe, lines 253-267
SubscribeFinish(p, t) ==
    /\ LET rsp == t.reply.val
       IN  IF t.err # ""
           THEN /\ task' = [task EXCEPT ![p] = Returned(t, Err(t.err))]
                /\ UNCHANGED <<subscriptions, crashed, registered>>
           ELSE IF t.reply = NoCell
           THEN /\ task' = [task EXCEPT ![p] = Panicked(t)]
                /\ crashed' = TRUE
                /\ UNCHANGED <<subscriptions, registered>>
           ELSE IF ~Successful(rsp)
           THEN /\ task' = [task EXCEPT ![p] = Returned(t, Err(rsp.error))]
                /\ UNCHANGED <<subscriptions, crashed, registered>>
           ELSE /\ mtx = NoProc
                /\ subscriptions' = [subscriptions EXCEPT ![RegistryKey(t.pattern)] =
                                        Sub(GlobString(t.pattern), t.out)]
                /\ registered' = [registered EXCEPT ![GlobString(t.pattern)] = Append(@, t.out)]
                /\ task' = [task EXCEPT ![p] = Returned(t, Nil)]
                /\ UNCHANGED crashed
    /\ UNCHANGED <<sharedLoopVar, session, queues, opsLeft, hsSent, early, earlySent>>

SubscribeReturn(p) ==
    /\ Running
    /\ task[p].pc = "send_ret"
    /\ task[p].req.channel = Subscribe
    /\ SubscribeFinish(p, task[p])

\* Unsubscribe, lines 114-118: the request is posted without any lock
CallUnsubscribe(p) ==
    /\ MayCall(p)
    /\ opsLeft' = opsLeft - 1
    /\ \E pat \in UnsubscribeArgs :
         task' = [task EXCEPT ![p] = Post(Begin("Unsubscribe", pat, ""), Unsubscribe, clientId, pat)]
    /\ early' = early \ {p}
    /\ UNCHANGED <<sharedLoopVar, session, subscriptions, queues, crashed, hsSent, earlySent, registered>>

\* Unsubscribe, lines 119-128, with doForgetSubscription, lines 135-140
UnsubscribeFinish(p, t) ==
    /\ LET rsp == t.reply.val
       IN  IF t.err # ""
           THEN /\ task' = [task EXCEPT ![p] = Returned(t, Err(t.err))]
                /\ UNCHANGED <<subscriptions, crashed, registered>>
           ELSE IF t.reply = NoCell
           THEN /\ task' = [task EXCEPT ![p] = Panicked(t)]
                /\ crashed' = TRUE
                /\ UNCHANGED <<subscriptions, registered>>
           ELSE IF ~Successful(rsp)
           THEN /\ task' = [task EXCEPT ![p] = Returned(t, Err(rsp.error))]
                /\ UNCHANGED <<subscriptions, crashed, registered>>
           ELSE /\ mtx = NoProc
                /\ subscriptions' = [subscriptions EXCEPT ![ForgetKey(t.pattern)] = Forgotten]
                /\ registered' = [registered EXCEPT ![GlobString(t.pattern)] = <<>>]
                /\ task' = [task EXCEPT ![p] = Returned(t, Nil)]
                /\ UNCHANGED crashed
    /\ UNCHANGED <<sharedLoopVar, session, queues, opsLeft, hsSent, early, earlySent>>

UnsubscribeReturn(p) ==
    /\ Running
    /\ task[p].pc = "send_ret"
    /\ task[p].req.channel = Unsubscribe
    /\ UnsubscribeFinish(p, task[p])

\* Close, lines 106-110: lock, kill the tomb, clear connected, post
\* /meta/disconnect. Killf on a nil *tomb.Tomb dereferences nil.
CallClose(p) ==
    /\ MayCall(p)
    /\ mtx = NoProc
    /\ opsLeft' = opsLeft - 1
    /\ early' = early \ {p}
    /\ IF tomb = 0
       THEN /\ task' = [task EXCEPT ![p] = Panicked(Begin("Close", "", ""))]
            /\ crashed' = TRUE
            /\ UNCHANGED <<mtx, dying, connected>>
       ELSE /\ mtx' = p
            /\ dying' = dying \cup {tomb}
            /\ connected' = FALSE
            /\ task' = [task EXCEPT ![p] = Post(Begin("Close", "", ""), Disconnect, clientId, "")]
            /\ UNCHANGED crashed
    /\ UNCHANGED <<sharedLoopVar, clientId, tomb, subscriptions, queues, hsSent, earlySent, registered>>

\* disconnect, lines 233-239, and the deferred Unlock of Close
DisconnectFinish(p, t) ==
    /\ mtx' = NoProc
    /\ LET rsp == t.reply.val
       IN  IF t.err # ""
           THEN /\ task' = [task EXCEPT ![p] = Returned(t, Err(t.err))]
                /\ UNCHANGED crashed
           ELSE IF t.reply = NoCell
           THEN /\ task' = [task EXCEPT ![p] = Panicked(t)]
                /\ crashed' = TRUE
           ELSE IF ~Successful(rsp)
           THEN /\ task' = [task EXCEPT ![p] = Returned(t, Err(rsp.error))]
                /\ UNCHANGED crashed
           ELSE /\ task' = [task EXCEPT ![p] = Returned(t, Nil)]
                /\ UNCHANGED crashed
    /\ UNCHANGED <<sharedLoopVar, connected, clientId, tomb, dying, subscriptions,
                   queues, opsLeft, history>>

DisconnectReturn(p) ==
    /\ Running
    /\ task[p].pc = "send_ret"
    /\ task[p].req.channel = Disconnect
    /\ DisconnectFinish(p, task[p])

(* ------------------------------- worker ------------------------------- *)

shared == <<sharedLoopVar, session, subscriptions, opsLeft, crashed, history>>

\* lines 185-186: the entry is a subscription and its glob matches the
\* channel the message pointer reads now
Matches(sub, msg) ==
    sub.kind = "sub" /\ MatchString(sub.glob, msg.val.channel)

\* the worker's position after an entry of the registry is dealt with
AfterEntry(todo) == IF todo = {} THEN "select" ELSE "range"

\* line 183: a message is received from the queue and the range over the
\* registry begins (no lock is taken)
WorkerReceive(w) ==
    /\ Running
    /\ task[w].pc = "select"
    /\ messages # <<>>
    /\ messages' = Tail(messages)
    /\ LET present == {k \in Keys : subscriptions[k] # Absent}
       IN  /\ worker' = [worker EXCEPT ![w] =
                            [msg |-> IF present = {} THEN NoCell ELSE Head(messages),
                             todo |-> present, done |-> {}, cur |-> Absent]]
           /\ task' = [task EXCEPT ![w] = [@ EXCEPT !.pc = AfterEntry(present)]]
    /\ UNCHANGED out
    /\ UNCHANGED shared

\* lines 184-186: the range yields an entry, one present when the range
\* began or one created since (which the range may also skip)
WorkerRange(w) ==
    /\ Running
    /\ task[w].pc = "range"
    /\ \E k \in Keys :
        /\ subscriptions[k] # Absent
        /\ k \notin worker[w].done
        /\ LET wk == worker[w]
               sub == subscriptions[k]
               todo == wk.todo \ {k}
           IN  IF Matches(sub, wk.msg)
               THEN /\ worker' = [worker EXCEPT ![w] =
                                    [wk EXCEPT !.todo = todo, !.done = @ \cup {k}, !.cur = sub]]
                    /\ task' = [task EXCEPT ![w] = [@ EXCEPT !.pc = "deliver"]]
               ELSE /\ worker' = [worker EXCEPT ![w] =
                                    IF todo = {} THEN IdleWorker
                                    ELSE [wk EXCEPT !.todo = todo, !.done = @ \cup {k}]]
                    /\ task' = [task EXCEPT ![w] = [@ EXCEPT !.pc = AfterEntry(todo)]]
    /\ UNCHANGED <<messages, out>>
    /\ UNCHANGED shared

\* line 187: the send on the subscriber's channel, blocking while it is full
WorkerDeliver(w) ==
    /\ Running
    /\ task[w].pc = "deliver"
    /\ LET wk == worker[w]
           d == wk.cur.out
       IN  /\ Len(out[d]) < OutCap
           /\ out' = [out EXCEPT ![d] = Append(@, wk.msg)]
           /\ worker' = [worker EXCEPT ![w] =
                            IF wk.todo = {} THEN IdleWorker ELSE [wk EXCEPT !.cur = Absent]]
           /\ task' = [task EXCEPT ![w] = [@ EXCEPT !.pc = AfterEntry(wk.todo)]]
    /\ UNCHANGED messages
    /\ UNCHANGED shared

\* lines 191-192: the tomb c.tomb points to now is dying
WorkerDying(w) ==
    /\ Running
    /\ task[w].pc = "select"
    /\ tomb \in dying
    /\ task' = [task EXCEPT ![w] = [@ EXCEPT !.pc = "dead"]]
    /\ UNCHANGED <<messages, worker, out>>
    /\ UNCHANGED shared

\* lines 193-194 with connect, lines 220-224: the timer fired
WorkerPoll(w) ==
    /\ Running
    /\ task[w].pc = "select"
    /\ opsLeft > 0
    /\ opsLeft' = opsLeft - 1
    /\ task' = [task EXCEPT ![w] = Post(@, Connect, clientId, "")]
    /\ UNCHANGED <<messages, worker, out>>
    /\ UNCHANGED <<sharedLoopVar, session, subscriptions, crashed, history>>

\* lines 194-196: the error connect returned, which the worker logs
PollOutcome(t) == IF t.err # "" THEN Err(t.err) ELSE Nil

\* a worker that returns the error of a failed poll
ConnectFinishOrExit(w, t) ==
    /\ task' = [task EXCEPT ![w] = [IdleTask EXCEPT !.pc = IF t.err # "" THEN "dead" ELSE "select",
                                                     !.ret = PollOutcome(t)]]
    /\ UNCHANGED <<messages, worker, out>>
    /\ UNCHANGED shared

\* lines 194-197: connect returned; a failure is logged and the loop goes on
ConnectFinish(w, t) ==
    /\ task' = [task EXCEPT ![w] = [IdleTask EXCEPT !.pc = "select", !.ret = PollOutcome(t)]]
    /\ UNCHANGED <<messages, worker, out>>
    /\ UNCHANGED shared

ConnectReturn(w) ==
    /\ Running
    /\ task[w].pc = "send_ret"
    /\ task[w].req.channel = Connect
    /\ ConnectFinish(w, task[w])

\* the subscriber's consumer receives from its destination channel
Consume(d) ==
    /\ Running
    /\ out[d] # <<>>
    /\ out' = [out EXCEPT ![d] = Tail(@)]
    /\ UNCHANGED <<messages, worker, task>>
    /\ UNCHANGED shared

(* ------------------------- the HTTP round trip ------------------------ *)

\* what the caller of send does with what send returned
Finish(p, t) ==
    CASE t.req.channel = Handshake -> HandshakeFinish(p, t)
      [] t.req.channel = Subscribe -> SubscribeFinish(p, t)
      [] t.req.channel = Unsubscribe -> UnsubscribeFinish(p, t)
      [] t.req.channel = Disconnect -> DisconnectFinish(p, t)
      [] t.req.channel = Connect -> ConnectFinish(p, t)

\* lines 260 and 136: the caller has to wait for c.mtx
WaitsForLock(t) ==
    /\ t.req.channel \in {Subscribe, Unsubscribe}
    /\ t.err = ""
    /\ t.reply # NoCell
    /\ Successful(t.reply.val)
    /\ mtx # NoProc

\* lines 276-309: the HTTP round trip ends with a transport failure or a
\* status other than 200, or with a decoded batch, over which the loop
\* begins; when the loop has nothing to send on the queue, send returns and
\* its caller goes on
ServerRespond(p) ==
    /\ Running
    /\ task[p].pc = "send_wait"
    /\ \E t \in {[task[p] EXCEPT !.pc = "send_ret", !.err = "HTTP Status 500"]}
              \cup {LoopOn(p, task[p], b).task :
                        b \in Batches(task[p].req.channel,
                                      IF task[p].req.channel = Handshake THEN hsSent
                                      ELSE task[p].req.clientId)} :
         IF t.pc = "send_ret" /\ ~WaitsForLock(t)
         THEN Finish(p, t)
         ELSE /\ task' = [task EXCEPT ![p] = t]
              /\ UNCHANGED <<sharedLoopVar, session, subscriptions, queues, opsLeft,
                             crashed, history>>

(* ---------------------------- specification --------------------------- *)

Next ==
    \/ \E p \in Callers : CallConnect(p)
    \/ \E p \in Callers : CallSubscribe(p)
    \/ \E p \in Callers : CallUnsubscribe(p)
    \/ \E p \in Callers : CallClose(p)
    \/ \E p \in Callers : EnsureLock(p)
    \/ \E p \in Callers : HandshakeReturn(p)
    \/ \E p \in Callers : SubscribeReturn(p)
    \/ \E p \in Callers : UnsubscribeReturn(p)
    \/ \E p \in Callers : DisconnectReturn(p)
    \/ \E p \in Procs : ServerRespond(p)
    \/ \E p \in Procs : SendLoop(p)
    \/ \E p \in Procs : SendNext(p)
    \/ \E w \in Workers : WorkerReceive(w)
    \/ \E w \in Workers : WorkerRange(w)
    \/ \E w \in Workers : WorkerDeliver(w)
    \/ \E w \in Workers : WorkerDying(w)
    \/ \E w \in Workers : WorkerPoll(w)
    \/ \E w \in Workers : ConnectReturn(w)
    \/ \E d \in Dests : Consume(d)

Spec == Init /\ [][Next]_vars

(* ------------------------- claims C1 to C10 --------------------------- *)

\* /meta/handshake requests posted and not yet answered
HsInFlight == Cardinality({p \in Callers : task[p].req.channel = Handshake})

\* p's Connect call has returned
ConnectDone(p) == task[p].op = "Connect" /\ task[p].pc = "idle"

\* C1, as stated: on a client no Close was called on, the calls that entered
\* ensureConnected before the first handshake was over post exactly one
\* /meta/handshake request between them, and the Connect calls among them all
\* return the same outcome.
C1_OneHandshakeSameOutcome ==
    dying = {} =>
        /\ earlySent <= 1
        /\ \A p, q \in early :
             ConnectDone(p) /\ ConnectDone(q) => task[p].ret = task[q].ret

\* C1, amended: on a client no Close was called on, handshake requests are
\* posted one at a time, at most one handshake succeeds, and once it has
\* succeeded no further request is posted (the server numbers the client ids
\* it issues by request, so c.clientId = hsSent says the request that
\* succeeded is the last one posted); a Connect call returns nil only on a
\* connected client.
C1_OneSuccessfulHandshake ==
    dying = {} =>
        /\ HsInFlight <= 1
        /\ tomb <= 1
        /\ connected <=> tomb = 1
        /\ connected => HsInFlight = 0 /\ clientId = hsSent
        /\ \A p \in Callers : ConnectDone(p) /\ task[p].ret = Nil => connected

\* C1, witness: two callers were in ensureConnected together, one handshake
\* request was posted, it succeeded, and both Connect calls returned nil
C1_Witness ==
    \E p, q \in early :
        /\ p # q
        /\ ConnectDone(p) /\ ConnectDone(q)
        /\ task[p].ret = Nil /\ task[q].ret = Nil
        /\ hsSent = 1 /\ connected

\* a worker is at the send of line 187, or a message is in a destination
Delivering(w) == task[w].pc = "deliver"

\* C2, as stated: whenever the worker sends a message to a destination
\* (line 187), the destination is that of a subscription registered as active
\* now, whose pattern matches the channel the message has.
C2_SendsOnlyToActiveMatching ==
    \A w \in Workers :
        Delivering(w) =>
            \E k \in Keys :
                /\ subscriptions[k] = worker[w].cur
                /\ subscriptions[k].kind = "sub"
                /\ MatchString(subscriptions[k].glob, worker[w].msg.val.channel)

\* C3, as stated, the part a finite run refutes: what a destination receives
\* is exactly the message the server pushed (the envelope the pointer was
\* taken from).
C3_ReceivesExactlyThePushed ==
    \A d \in Dests : \A i \in DOMAIN out[d] : out[d][i].val = out[d][i].orig

\* C4, as stated, the returned value: when send returns without an error,
\* what it returns is the envelope of the batch whose channel is the
\* request's channel.
C4_ReturnsTheReply ==
    \A p \in Procs :
        task[p].pc = "send_ret" /\ task[p].err = "" =>
            /\ task[p].reply # NoCell
            /\ task[p].reply.val = task[p].reply.orig
            /\ IsReply(task[p].req, task[p].reply.val)

\* t is a Subscribe call with the pattern that does not compile
BadSubscribe(t) == t.op = "Subscribe" /\ t.pattern = BadPattern

\* C5, as stated: a Subscribe call with a pattern that does not compile
\* sends no HTTP request at all, in every session state.
C5_NoRequestAtAll ==
    \A p \in Callers : BadSubscribe(task[p]) => task[p].req = NoReq

\* C5, amended: a Subscribe call with a pattern that does not compile never
\* posts /meta/subscribe and leaves the registry as it was; on a connected
\* client it posts no request at all and returns the invalid-pattern error;
\* on a client that is not connected it first posts the /meta/handshake of
\* ensureConnected, and returns the invalid-pattern error when that
\* handshake succeeds, the handshake's error otherwise.
C5_NoSubscribeRequest ==
    [][\A p \in Callers :
          task'[p] # task[p] /\ BadSubscribe(task'[p]) =>
              /\ task'[p].req.channel \in {"", Handshake}
              /\ subscriptions' = subscriptions
              /\ task[p].pc = "idle" /\ connected =>
                    /\ task'[p].pc = "idle"
                    /\ task'[p].ret = Err("Invalid pattern")
              /\ task[p].pc = "idle" /\ ~connected => task'[p].pc = "ec_lock"
              /\ task'[p].pc = "idle" => task'[p].ret.kind = "err"
              /\ task'[p].pc = "idle" /\ task[p].req.channel # Handshake =>
                    task'[p].ret = Err("Invalid pattern")
              /\ task'[p].pc = "idle" /\ task[p].req.channel = Handshake =>
                    (connected' <=> task'[p].ret = Err("Invalid pattern"))]_vars

\* C5, witness: the only call made so far is a Subscribe with a pattern that
\* does not compile; it posted a handshake, which succeeded, and returned the
\* invalid-pattern error
C5_Witness ==
    \E p \in Callers :
        /\ BadSubscribe(task[p])
        /\ task[p].pc = "idle"
        /\ task[p].ret = Err("Invalid pattern")
        /\ opsLeft = MaxOps - 1
        /\ hsSent = 1 /\ connected

\* C6, as stated: when the server answers /meta/unsubscribe with
\* successful=false, Unsubscribe returns an error carrying the server's error
\* string and the registry is left as it was.
C6_FailedUnsubscribe ==
    [][\A p \in Callers :
          /\ task[p].op = "Unsubscribe"
          /\ task[p].pc = "send_ret"
          /\ task[p].reply # NoCell
          /\ ~task[p].reply.orig.successful
          /\ task'[p].pc = "idle"
          => /\ task'[p].ret = Err(task[p].reply.orig.error)
             /\ subscriptions' = subscriptions]_vars

\* the destinations the callers subscribe pattern P with
SubscribedWith(P) == {a[2] : a \in {b \in SubscribeArgs : b[1] = P}}

\* C7, as stated: when a successful Unsubscribe(P) returns, the registry
\* holds no active subscription for P: the entry under P's canonical form is
\* not a subscription with a destination registered by Subscribe(P, ch).
C7_UnsubscribedIsInactive ==
    [][\A p \in Callers :
          /\ task[p].op = "Unsubscribe"
          /\ task[p].pc # "idle"
          /\ task'[p].pc = "idle"
          /\ task'[p].ret = Nil
          => LET entry == subscriptions'[GlobString(task[p].pattern)]
             IN  ~(entry.kind = "sub" /\ entry.out \in SubscribedWith(task[p].pattern))]_vars

\* the last element of a sequence that is not empty
Last(seq) == seq[Len(seq)]

C9_StoppedWorkerCanExit ==
    \A t \in dying :
        Running /\ task[WorkerOf(t)].pc = "send_loop" /\ Len(messages) = QueueCap =>
            \E v \in Workers \ {WorkerOf(t)} : task[v].pc \notin {"none", "dead"}

\* C10, as stated: every Close call, in every session state, ends by
\* returning the outcome of its /meta/disconnect request, nil or an error.
C10_CloseReturnsDisconnectOutcome ==
    \A p \in Callers :
        task[p].op = "Close" /\ task[p].pc \in {"idle", "panic"} =>
            task[p].ret.kind \in {"nil", "err"}

(* ------------------------- claims C11 to C20 -------------------------- *)

\* p's Close call returns in this step
CloseReturns(p) ==
    task[p].op = "Close" /\ task[p].pc # "idle" /\ task'[p].pc = "idle"

\* after the step the session is over: connected is false and the tomb
\* c.tomb points to stays killed
SessionEnded == ~connected' /\ tomb' \in dying'

\* C11, as stated: when the /meta/disconnect request of a Close on a
\* connected client is answered with successful=false, Close returns the
\* server's error, and when Close returns the session has ended.
C11_FailedCloseEndsSession ==
    [][\A p \in Callers :
          CloseReturns(p) =>
              /\ SessionEnded
              /\ task[p].pc = "send_ret" /\ task[p].reply # NoCell
                    /\ ~task[p].reply.orig.successful
                    => task'[p].ret = Err(task[p].reply.orig.error)]_vars

\* p posts a /meta/subscribe request in this step
PostsSubscribe(p) ==
    task'[p].req.channel = Subscribe /\ task[p].req.channel # Subscribe

HandshakeEnds(p) ==
    task[p].req.channel = Handshake /\ task'[p].req.channel # Handshake

\* the step connects the session: connected turns true, c.clientId holds the
\* id the server issued for the request, and a worker is started on a new tomb
Connects ==
    /\ ~connected /\ connected'
    /\ clientId' = hsSent /\ clientId' >= 1
    /\ tomb' = tomb + 1
    /\ task[WorkerOf(tomb')].pc = "none"
    /\ task'[WorkerOf(tomb')].pc = "select"

\* the step leaves the session as it was: not connected, the same client id
\* and tomb, no worker started
LeavesSession ==
    /\ ~connected'
    /\ UNCHANGED <<connected, clientId, tomb>>
    /\ \A w \in Workers : task'[w] = task[w]

\* C13: a handshake ends either connecting the session, or with an error
\* returned to its caller (a nil reply: with the caller's panic, C18) and the
\* session left as it was; connected turns true, c.clientId changes and a
\* worker starts only in the step of a handshake that connects.
C13_HandshakeOutcome ==
    [][/\ \A p \in Callers :
             HandshakeEnds(p) =>
                 \/ Connects
                 \/ /\ task'[p].pc \in {"idle", "panic"}
                    /\ task'[p].ret.kind \in {"err", "panic"}
                    /\ task'[p].pc = "idle" => task'[p].ret.msg \in {"HTTP Status 500", "Unknown client", ""}
                    /\ LeavesSession
       /\ \/ ~connected /\ connected'
          \/ clientId' # clientId
          \/ \E w \in Workers : task[w].pc = "none" /\ task'[w].pc # "none"
          => Connects /\ \E p \in Callers : HandshakeEnds(p)]_vars

\* C13, witness: the one handshake sent so far was answered with
\* successful=false: its caller has the server's error, the session is not
\* connected, has no client id and no worker
C13_Witness ==
    \E p \in Callers :
        /\ ConnectDone(p)
        /\ task[p].ret = Err("Unknown client")
        /\ hsSent = 1
        /\ ~connected /\ clientId = 0 /\ tomb = 0
        /\ \A w \in Workers : task[w].pc = "none"

\* the poll of worker w ends in this step: connect has returned
PollEnds(w) ==
    task[w].req.channel = Connect /\ task'[w].req.channel # Connect

\* C14: when a poll ends, failed or not, the worker is back at its select,
\* from where it polls again; the one step that ends a worker is the dying
\* branch of the select, taken with the tomb killed by Close.
C14_PollFailuresDoNotEndWorker ==
    [][\A w \in Workers :
          /\ PollEnds(w) => task'[w].pc = "select"
          /\ task[w].pc # "dead" /\ task'[w].pc = "dead" =>
                /\ task[w].pc = "select"
                /\ tomb \in dying]_vars

\* C14, witness: a worker whose last poll failed has posted its next
\* /meta/connect request
C14_Witness ==
    \E w \in Workers :
        /\ task[w].ret.kind = "err"
        /\ task[w].pc = "send_wait"
        /\ task[w].req.channel = Connect

\* worker w is inside its range over c.subscriptions (lines 184-190), which
\* it runs without taking c.mtx
Ranging(w) == task[w].pc \in {"range", "deliver"}

\* C15, as stated, for the registry: no task writes c.subscriptions while
\* another task, the worker in its fan-out, is reading it without the lock.
C15_NoWriteDuringUnlockedRead ==
    [][subscriptions' # subscriptions => \A w \in Workers : ~Ranging(w)]_vars

\* C16, as stated, for the queue: each message enqueued by send, in the
\* queue or taken from it by a worker, keeps the channel and data of the
\* envelope it was enqueued for.
C16_EnqueuedKeepsItsEnvelope ==
    /\ \A i \in DOMAIN messages : messages[i].val = messages[i].orig
    /\ \A w \in Workers : worker[w].msg.val = worker[w].msg.orig

\* worker w has not ended
Live(w) == task[w].pc \notin {"none", "dead"}

\* goroutine p waits at line 305 to send on the full queue, and no worker
\* other than p is alive to receive from it
BlockedOnQueue(p) ==
    /\ Running
    /\ task[p].pc = "send_loop"
    /\ Len(messages) = QueueCap
    /\ \A v \in Workers \ {p} : ~Live(v)

\* C17, as stated, in the form a finite run refutes: a worker in a
\* /meta/connect poll is never left waiting to send on the full internal
\* queue, which it alone drains.
C17_PollNeverBlocksOnQueue ==
    \A w \in Workers : ~BlockedOnQueue(w)

\* C18, as stated: a handshake, subscribe, Unsubscribe or disconnect whose
\* request is answered does not end with a crash on a missing reply.
C18_NoCrashOnMissingReply ==
    [][\A p \in Callers :
          task[p].req.channel \in {Handshake, Subscribe, Unsubscribe, Disconnect} =>
              task'[p].pc # "panic"]_vars

\* C19, as stated: at most one worker is live, and a worker whose tomb Close
\* has killed finds its stop signal set when it is at its select.
C19_OneWorkerKeepsItsStop ==
    /\ Cardinality({w \in Workers : Live(w)}) <= 1
    /\ \A t \in dying : task[WorkerOf(t)].pc = "select" => tomb \in dying

\* C20, as stated, in the form a finite run refutes: a Close whose
\* /meta/disconnect was answered is never left holding the exclusive lock
\* while it waits to send on the full queue with no worker alive to drain it.
C20_CloseNeverBlocksHoldingLock ==
    \A p \in Callers :
        task[p].op = "Close" /\ mtx = p => ~BlockedOnQueue(p)

====
